---------------------------- MODULE Spec2Model ----------------------------
(***************************************************************************)
(* Model of bafang.ino: the firmware of a replacement control pad for a    *)
(* Bafang e-bike motor controller.  loop() polls three pull-up button      *)
(* lines, moves the 8-bit pedal-assist level on release edges, and, when   *)
(* the dirty flag is set, refreshes the RGB LED and writes three packets   *)
(* (PAS level, backlight, wheel diameter) to the serial link.              *)
(*                                                                         *)
(* Everything the firmware does to the outside (delay, analogWrite through *)
(* setColor, Serial.write) is appended to `log`, the record of the current *)
(* call of loop(); `log` is emptied when the next call of loop() samples   *)
(* the lines.                                                              *)
(*                                                                         *)
(* Serializable<T> reads the packed struct through its byte array.  The    *)
(* Arduino toolchains (avr-gcc, arm-gcc) define this union read and lay    *)
(* uint16_t out low byte first, so the bytes are a function of the fields. *)
(***************************************************************************)
EXTENDS Integers, Sequences, FiniteSets

VARIABLES
    line,               \* electrical level of the three button pins
    buttonState,        \* bafang.ino:103
    lastButtonState,    \* bafang.ino:104
    current_pas_level,  \* bafang.ino:105
    dirty,              \* bafang.ino:106
    pc,                 \* position inside loop()
    i,                  \* the for-loop index of loop()
    led,                \* PWM duty of the three LED pins, <<r, g, b>>
    log,                \* what this call of loop() has done so far
    level0,             \* current_pas_level when this call of loop() began
    last0,              \* lastButtonState when this call of loop() began
    bounce,             \* where line k has toggled since it was sampled
    bounced,            \* line k only bounced during the previous call
    loops,              \* calls of loop() counted by the bounded specification
    lastPas,            \* bytes of the last PAS packet written since boot
    shown               \* level of the last LED refresh that wrote a colour, or -1

vars == <<line, buttonState, lastButtonState, current_pas_level, dirty, pc, i,
          led, log, level0, last0, bounce, bounced, loops, lastPas, shown>>

----------------------------------------------------------------------------
(* Bounds of the bounded specification SpecBounce. *)

MaxLoops == 4

----------------------------------------------------------------------------
(* Constants of the program. *)

LOW == 0

HIGH == 1

\* BAFCommand::WRITE = 0x16
WRITE_CMD == 22

\* BAFPasCommand
PAS0 == 0

PAS1 == 1

\* 0x0B
PAS2 == 11

\* 0x0C
PAS3 == 12

\* 0x0D
PAS4 == 13

\* BAFBacklightCommand::OFF = 0xF0
BACKLIGHT_OFF == 240

\* cmd of baf_pas_pkg_t = 0x08
PAS_CMD == 8

\* cmd of baf_light_pkg_t = 0x1A
LIGHT_CMD == 26

\* cmd of baf_wheel_pkg_t = 0x1F
WHEEL_CMD == 31

\* wheel.data.diameter = 0x90C6
WHEEL_DIAMETER == 37062

BTN_UP == 0

BTN_DOWN == 1

BTN_PWR == 2

BTN_STATE_COUNT == 3

MAX_PAS_LEVEL == 4

DEBOUNCE_MS == 50

PACKET_GAP_MS == 1

RED == <<255, 0, 0>>

GREEN == <<0, 255, 0>>

BLUE == <<0, 0, 255>>

MAGENTA == <<255, 0, 255>>

\* PAS2Color[level] of the source is PAS2Color[level + 1] here (1-based tuples)
PAS2Color == <<RED, GREEN, BLUE, MAGENTA>>

\* the LED pins after pinMode(OUTPUT) and before any analogWrite
LedOff == <<0, 0, 0>>

Channels == 0 .. (BTN_STATE_COUNT - 1)

Levels == {LOW, HIGH}

Samples == [Channels -> Levels]

----------------------------------------------------------------------------
(* Integer widths. *)

\* conversion to uint8_t
U8(x) == x % 256

\* conversion to uint16_t
U16(x) == x % 65536

----------------------------------------------------------------------------
(* Events of the log. *)

Ev(op, arg) == [op |-> op, arg |-> arg]

EvDelay(ms) == Ev("delay", <<ms>>)

EvWrite(bytes) == Ev("write", bytes)

EvSetColor(c) == Ev("setColor", c)

\* the test of line 185 succeeded on channel ch, whose sample is lvl
EvEdge(ch, lvl) == Ev("edge", <<ch, lvl>>)

----------------------------------------------------------------------------
(* The packets. *)

\* baf_pas_pkg_t with its default member initialisers
baf_pas_pkg == [type |-> WRITE_CMD, cmd |-> PAS_CMD, pas |-> PAS0, checksum |-> 0]

\* baf_light_pkg_t with its default member initialisers
baf_light_pkg == [type |-> WRITE_CMD, cmd |-> LIGHT_CMD, backlight |-> BACKLIGHT_OFF, checksum |-> 0]

\* baf_wheel_pkg_t with its default member initialisers
baf_wheel_pkg == [type |-> WRITE_CMD, cmd |-> WHEEL_CMD, diameter |-> 0, checksum |-> 0]

\* Serializable<baf_pas_pkg_t>::bytes
PasBytes(p) == <<p.type, p.cmd, p.pas, p.checksum>>

\* Serializable<baf_light_pkg_t>::bytes
LightBytes(p) == <<p.type, p.cmd, p.backlight, p.checksum>>

\* Serializable<baf_wheel_pkg_t>::bytes: the uint16_t diameter low byte first
WheelBytes(p) == <<p.type, p.cmd, p.diameter % 256, p.diameter \div 256, p.checksum>>

\* the switch with a default that saturates at the highest level
pasLevel_Saturating(level) ==
    CASE level = 0 -> PAS0
      [] level = 1 -> PAS1
      [] level = 2 -> PAS2
      [] level = 3 -> PAS3
      [] OTHER -> PAS4

\* the switch of sendNewState
pasLevel(level) ==
    CASE level = 0 -> PAS0
      [] level = 1 -> PAS1
      [] level = 2 -> PAS2
      [] level = 3 -> PAS3
      [] level = 4 -> PAS4
      [] OTHER -> PAS0

\* the PAS packet with its checksum taken before pas is assigned
PasPacket_ChecksumFirst(level) ==
    LET p1 == [baf_pas_pkg EXCEPT !.checksum = U8(baf_pas_pkg.type + baf_pas_pkg.cmd + baf_pas_pkg.pas)]
        p2 == [p1 EXCEPT !.pas = pasLevel(level)]
    IN  p2

\* lines 124-135: the PAS packet as written
PasPacket(level) ==
    LET p1 == [baf_pas_pkg EXCEPT !.pas = pasLevel(level)]
        p2 == [p1 EXCEPT !.checksum = U8(p1.type + p1.cmd + p1.pas)]
    IN  p2

\* line 140: the backlight packet as written; its checksum is never assigned
LightPacket == baf_light_pkg

\* the wheel packet with its checksum taken after the diameter is assigned
WheelPacket_DiameterFirst ==
    LET w1 == [baf_wheel_pkg EXCEPT !.diameter = WHEEL_DIAMETER]
        w2 == [w1 EXCEPT !.checksum = U8(U16(w1.type + w1.cmd + w1.diameter))]
    IN  w2

\* lines 145-147: the checksum is taken before the diameter is assigned
WheelPacket ==
    LET w1 == [baf_wheel_pkg EXCEPT !.checksum = U8(U16(baf_wheel_pkg.type + baf_wheel_pkg.cmd + baf_wheel_pkg.diameter))]
        w2 == [w1 EXCEPT !.diameter = WHEEL_DIAMETER]
    IN  w2

\* sendNewState() with the wheel packet written before the backlight packet
sendNewState_WheelFirst(level) ==
    << EvWrite(PasBytes(PasPacket(level))), EvDelay(PACKET_GAP_MS),
       EvWrite(WheelBytes(WheelPacket)), EvDelay(PACKET_GAP_MS),
       EvWrite(LightBytes(LightPacket)), EvDelay(PACKET_GAP_MS) >>

\* sendNewState() returning after the backlight packet
sendNewState_NoWheel(level) ==
    << EvWrite(PasBytes(PasPacket(level))), EvDelay(PACKET_GAP_MS),
       EvWrite(LightBytes(LightPacket)), EvDelay(PACKET_GAP_MS) >>

\* sendNewState(): what it does, in order
sendNewState(level) ==
    << EvWrite(PasBytes(PasPacket(level))), EvDelay(PACKET_GAP_MS),
       EvWrite(LightBytes(LightPacket)), EvDelay(PACKET_GAP_MS),
       EvWrite(WheelBytes(WheelPacket)), EvDelay(PACKET_GAP_MS) >>

\* setColor(c): the three analogWrite calls
setColor(c) == [led |-> c, out |-> <<EvSetColor(c)>>]

\* updatePAS() with a fallback colour (the last of the table) above the table
updatePAS_Fallback(level, ld) ==
    IF level < MAX_PAS_LEVEL
        THEN setColor(PAS2Color[level + 1])
        ELSE setColor(PAS2Color[MAX_PAS_LEVEL])

\* updatePAS() with the level wrapped into the colour table
updatePAS_Modulo(level, ld) == setColor(PAS2Color[(level % MAX_PAS_LEVEL) + 1])

\* updatePAS(): the LED after it and what it did
updatePAS(level, ld) ==
    IF level < MAX_PAS_LEVEL
        THEN setColor(PAS2Color[level + 1])
        ELSE [led |-> ld, out |-> <<>>]

----------------------------------------------------------------------------
(* The state after setup(). *)

\* the state after setup() had the previous levels started at the idle level
Init_IdleHigh ==
    /\ line \in Samples
    /\ buttonState = [k \in Channels |-> 0]
    /\ lastButtonState = [k \in Channels |-> HIGH]
    /\ current_pas_level = 1
    /\ dirty = FALSE
    /\ pc = "loop"
    /\ i = 0
    /\ led = LedOff
    /\ log = <<>>
    /\ level0 = 1
    /\ last0 = [k \in Channels |-> HIGH]
    /\ bounce = [k \in Channels |-> "none"]
    /\ bounced = [k \in Channels |-> FALSE]
    /\ loops = 0
    /\ lastPas = <<>>
    /\ shown = -1

Init ==
    /\ line \in Samples
    /\ buttonState = [k \in Channels |-> 0]
    /\ lastButtonState = [k \in Channels |-> 0]
    /\ current_pas_level = 1
    /\ dirty = FALSE
    /\ pc = "loop"
    /\ i = 0
    /\ led = LedOff
    /\ log = <<>>
    /\ level0 = 1
    /\ last0 = [k \in Channels |-> 0]
    /\ bounce = [k \in Channels |-> "none"]
    /\ bounced = [k \in Channels |-> FALSE]
    /\ loops = 0
    /\ lastPas = <<>>
    /\ shown = -1

----------------------------------------------------------------------------
(* loop() *)

\* lines 178-180: the three digitalRead calls return s
Read(s) ==
    /\ pc = "loop"
    /\ line' = s
    /\ buttonState' = s
    /\ i' = 0
    /\ pc' = "for"
    /\ log' = <<>>
    /\ level0' = current_pas_level
    /\ last0' = lastButtonState
    /\ bounced' = [k \in Channels |-> bounce[k] = "inside" /\ line[k] = buttonState[k]]
    /\ bounce' = [k \in Channels |-> "none"]
    /\ UNCHANGED <<lastButtonState, current_pas_level, dirty, led, lastPas, shown>>

\* the switch with the level kept inside the table, 0 .. MAX_PAS_LEVEL
LevelAfterEdge_Clamped(ch, level) ==
    CASE ch = BTN_UP -> IF level < MAX_PAS_LEVEL THEN level + 1 ELSE level
      [] ch = BTN_DOWN -> IF level > 0 THEN level - 1 ELSE level
      [] OTHER -> level

\* the switch with the decrement stopping at 0
LevelAfterEdge_FloorZero(ch, level) ==
    CASE ch = BTN_UP -> U8(level + 1)
      [] ch = BTN_DOWN -> IF level = 0 THEN 0 ELSE level - 1
      [] OTHER -> level

\* lines 189-196: the switch on the channel of a release edge
LevelAfterEdge(ch, level) ==
    CASE ch = BTN_UP -> U8(level + 1)
      [] ch = BTN_DOWN -> U8(level - 1)
      [] OTHER -> level

\* dirty set inside the BTN_UP case only
DirtyAfterEdge_UpOnly(ch, d) == IF ch = BTN_UP THEN TRUE ELSE d

\* line 198, reached by a release edge on any channel
DirtyAfterEdge(ch, d) == TRUE

\* the channel acted on at any change, press or release
Changed_AnyEdge ==
    /\ pc = "for"
    /\ i < BTN_STATE_COUNT
    /\ buttonState[i] # lastButtonState[i]
    /\ current_pas_level' = LevelAfterEdge(i, current_pas_level)
    /\ dirty' = DirtyAfterEdge(i, dirty)
    /\ log' = log \o <<EvEdge(i, buttonState[i]), EvDelay(DEBOUNCE_MS)>>
    /\ pc' = "delay"
    /\ UNCHANGED <<line, buttonState, lastButtonState, i, led, level0, last0,
                   bounce, bounced, loops, lastPas, shown>>

\* the delay taken only in the release branch
Changed_DelayOnRelease ==
    /\ pc = "for"
    /\ i < BTN_STATE_COUNT
    /\ buttonState[i] # lastButtonState[i]
    /\ IF buttonState[i] = HIGH
          THEN /\ current_pas_level' = LevelAfterEdge(i, current_pas_level)
               /\ dirty' = DirtyAfterEdge(i, dirty)
               /\ log' = log \o <<EvEdge(i, buttonState[i]), EvDelay(DEBOUNCE_MS)>>
          ELSE /\ UNCHANGED <<current_pas_level, dirty>>
               /\ log' = log \o <<EvEdge(i, buttonState[i])>>
    /\ pc' = "delay"
    /\ UNCHANGED <<line, buttonState, lastButtonState, i, led, level0, last0,
                   bounce, bounced, loops, lastPas, shown>>

\* lines 185-204: the sample of channel i differs from its previous level
Changed ==
    /\ pc = "for"
    /\ i < BTN_STATE_COUNT
    /\ buttonState[i] # lastButtonState[i]
    /\ IF buttonState[i] = HIGH
          THEN /\ current_pas_level' = LevelAfterEdge(i, current_pas_level)
               /\ dirty' = DirtyAfterEdge(i, dirty)
          ELSE UNCHANGED <<current_pas_level, dirty>>
    /\ log' = log \o <<EvEdge(i, buttonState[i]), EvDelay(DEBOUNCE_MS)>>
    /\ pc' = "delay"
    /\ UNCHANGED <<line, buttonState, lastButtonState, i, led, level0, last0,
                   bounce, bounced, loops,
                   lastPas, shown>>

\* the delay returns, the pin is read again and the channel is evaluated again
Settle_Resample ==
    /\ pc = "delay"
    /\ buttonState' = [buttonState EXCEPT ![i] = line[i]]
    /\ lastButtonState' = [lastButtonState EXCEPT ![i] = buttonState[i]]
    /\ pc' = "for"
    /\ UNCHANGED <<line, current_pas_level, dirty, i, led, log, level0, last0,
                   bounce, bounced, loops,
                   lastPas, shown>>

\* the delay returns and the for loop steps without saving the sample
Settle_NoSave ==
    /\ pc = "delay"
    /\ i' = i + 1
    /\ pc' = "for"
    /\ UNCHANGED <<line, buttonState, lastButtonState, current_pas_level, dirty,
                   led, log, level0, last0, bounce, bounced, loops, lastPas, shown>>

\* line 204 returns; line 208 saves the sample; the for loop steps
Settle ==
    /\ pc = "delay"
    /\ lastButtonState' = [lastButtonState EXCEPT ![i] = buttonState[i]]
    /\ i' = i + 1
    /\ pc' = "for"
    /\ UNCHANGED <<line, buttonState, current_pas_level, dirty, led, log, level0,
                   last0, bounce, bounced, loops,
                   lastPas, shown>>

\* lines 185, 208: the sample of channel i equals its previous level
Unchanged ==
    /\ pc = "for"
    /\ i < BTN_STATE_COUNT
    /\ buttonState[i] = lastButtonState[i]
    /\ lastButtonState' = [lastButtonState EXCEPT ![i] = buttonState[i]]
    /\ i' = i + 1
    /\ UNCHANGED <<line, buttonState, current_pas_level, dirty, pc, led, log,
                   level0, last0, bounce, bounced, loops,
                   lastPas, shown>>

RECURSIVE LastPasOf(_, _)
\* the bytes of the last PAS packet (sub-command class 0x08) written in out,
\* or old when out writes none
LastPasOf(out, old) ==
    IF out = <<>> THEN old
    ELSE LET e == out[Len(out)]
         IN  IF e.op = "write" /\ e.arg[2] = PAS_CMD
                THEN e.arg
                ELSE LastPasOf(SubSeq(out, 1, Len(out) - 1), old)

\* the refresh and the transmission without the final dirty = false
Flush_KeepDirty ==
    /\ pc = "for"
    /\ i = BTN_STATE_COUNT
    /\ dirty
    /\ led' = updatePAS(current_pas_level, led).led
    /\ log' = log \o updatePAS(current_pas_level, led).out \o sendNewState(current_pas_level)
    /\ pc' = "loop"
    /\ i' = 0
    /\ lastPas' = LastPasOf(sendNewState(current_pas_level), lastPas)
    /\ shown' = IF updatePAS(current_pas_level, led).out # <<>>
                    THEN current_pas_level ELSE shown
    /\ UNCHANGED <<line, buttonState, lastButtonState, current_pas_level, dirty,
                   level0, last0, bounce, bounced, loops>>

\* lines 211-219 with dirty set: updatePAS(), sendNewState(), dirty = false
Flush ==
    /\ pc = "for"
    /\ i = BTN_STATE_COUNT
    /\ dirty
    /\ led' = updatePAS(current_pas_level, led).led
    /\ log' = log \o updatePAS(current_pas_level, led).out \o sendNewState(current_pas_level)
    /\ dirty' = FALSE
    /\ pc' = "loop"
    /\ i' = 0
    /\ lastPas' = LastPasOf(sendNewState(current_pas_level), lastPas)
    /\ shown' = IF updatePAS(current_pas_level, led).out # <<>>
                    THEN current_pas_level ELSE shown
    /\ UNCHANGED <<line, buttonState, lastButtonState, current_pas_level, level0,
                   last0, bounce, bounced, loops>>

\* line 211 with dirty clear: loop() returns
Idle ==
    /\ pc = "for"
    /\ i = BTN_STATE_COUNT
    /\ ~dirty
    /\ pc' = "loop"
    /\ i' = 0
    /\ UNCHANGED <<line, buttonState, lastButtonState, current_pas_level, dirty,
                   led, log, level0, last0, bounce, bounced, loops,
                   lastPas, shown>>

\* a call of loop() that samples any levels
Sample ==
    /\ \E s \in Samples : Read(s)
    /\ UNCHANGED loops

Next ==
    \/ Sample
    \/ Changed
    \/ Settle
    \/ Unchanged
    \/ Flush
    \/ Idle

Spec == Init /\ [][Next]_vars

----------------------------------------------------------------------------
(* The lines as a signal of their own: they move while the firmware waits. *)
(* The firmware reads them only at lines 178-180, so a toggle at any other *)
(* position of loop() is seen exactly as a toggle before the next call;    *)
(* the one toggle told apart is that of the line whose delay(50) is        *)
(* running, the bounce the delay is there for.                             *)

Flip(s, k) == [s EXCEPT ![k] = 1 - s[k]]

\* line k toggles while loop() is about to be called or inside delay(50)
Toggle(k) ==
    /\ pc \in {"loop", "delay"}
    /\ line' = Flip(line, k)
    /\ pc = "delay" => k = i
    /\ bounce' = [bounce EXCEPT ![k] = IF pc = "delay" /\ bounce[k] # "outside"
                                          THEN "inside" ELSE "outside"]
    /\ UNCHANGED <<buttonState, lastButtonState, current_pas_level, dirty, pc, i,
                   led, log, level0, last0, bounced, loops,
                   lastPas, shown>>

\* a call of loop() that samples the lines as they are
ReadLine ==
    /\ loops < MaxLoops
    /\ Read(line)
    /\ loops' = loops + 1

NextBounce ==
    \/ \E k \in Channels : Toggle(k)
    \/ ReadLine
    \/ Changed
    \/ Settle
    \/ Unchanged
    \/ Flush
    \/ Idle

SpecBounce == Init /\ [][NextBounce]_vars

----------------------------------------------------------------------------
(* Reading the log. *)

IsWrite(e) == e.op = "write"

\* the Serial.write calls of this call of loop(), in order
Sent == SelectSeq(log, IsWrite)

\* the bytes of the k-th packet written in this call of loop()
Packet(k) == Sent[k].arg

\* the edges detected in this call of loop(), as <<channel, sampled level>>
Edges == {log[k].arg : k \in {j \in 1 .. Len(log) : log[j].op = "edge"}}

\* how many events of lg are e
CountIn(lg, e) == Cardinality({k \in 1 .. Len(lg) : lg[k] = e})

\* how many events of the log are e
Count(e) == CountIn(log, e)

\* how many edges of the log are on channel ch
EdgeCount(ch) ==
    Cardinality({k \in 1 .. Len(log) : log[k].op = "edge" /\ log[k].arg[1] = ch})

RECURSIVE SumBytes(_, _)
\* the sum of the first n bytes of b
SumBytes(b, n) == IF n = 0 THEN 0 ELSE b[n] + SumBytes(b, n - 1)

\* the 8-bit truncated sum of all the bytes of b before its last
Checksum(b) == SumBytes(b, Len(b) - 1) % 256

\* the sub-command table of the specification
SubCommand(level) ==
    IF level = 0 THEN 0
    ELSE IF level = 1 THEN 1
    ELSE IF level = 2 THEN 11
    ELSE IF level = 3 THEN 12
    ELSE IF level = 4 THEN 13
    ELSE 0

\* loop() has returned
Returned == pc = "loop"

----------------------------------------------------------------------------
(* C1: whatever the assist level (0..255) when sendNewState runs, byte 2   *)
(* of the PAS packet it writes is 0x00, 0x01, 0x0B, 0x0C, 0x0D for levels  *)
(* 0, 1, 2, 3, 4 and 0x00 for every other level.                           *)
C1_PasSubCommand ==
    /\ current_pas_level \in 0 .. 255
    /\ Len(Sent) > 0 =>
          /\ current_pas_level = 0 => Packet(1)[3] = 0
          /\ current_pas_level = 1 => Packet(1)[3] = 1
          /\ current_pas_level = 2 => Packet(1)[3] = 11
          /\ current_pas_level = 3 => Packet(1)[3] = 12
          /\ current_pas_level = 4 => Packet(1)[3] = 13
          /\ current_pas_level \in 5 .. 255 => Packet(1)[3] = 0

\* a PAS packet has been written at a level above the table: it carries 0x00
C1_Witness ==
    /\ Returned
    /\ current_pas_level = 200
    /\ Len(Sent) > 0
    /\ Packet(1)[3] = 0

(* C2: every PAS packet written is [0x16, 0x08, m, c] with m the mapped    *)
(* sub-command of the current level and c = (0x16 + 0x08 + m) mod 256, the *)
(* 8-bit truncated sum of the bytes before it.                             *)
C2_PasPacket ==
    Len(Sent) > 0 =>
        /\ Packet(1) = <<22, 8, SubCommand(current_pas_level),
                         (22 + 8 + SubCommand(current_pas_level)) % 256>>
        /\ Packet(1)[4] = Checksum(Packet(1))

\* a PAS packet for level 4 has been written: [0x16, 0x08, 0x0D, 0x2B]
C2_Witness ==
    /\ Returned
    /\ current_pas_level = 4
    /\ Len(Sent) > 0
    /\ Packet(1) = <<22, 8, 13, 43>>

(* C3: every backlight packet written is [0x16, 0x1A, 0xF0, c] with c the  *)
(* sum of the three bytes before it mod 256 (0x20).                        *)
C3_LightPacket ==
    Len(Sent) > 1 =>
        /\ Len(Packet(2)) = 4
        /\ SubSeq(Packet(2), 1, 3) = <<22, 26, 240>>
        /\ Packet(2)[4] = Checksum(Packet(2))
        /\ Packet(2)[4] = (22 + 26 + 240) % 256

(* C4: every wheel packet written is [0x16, 0x1F, 0xC6, 0x90, c] with c    *)
(* taken while the diameter is still zero, c = (0x16 + 0x1F + 0) mod 256 = *)
(* 0x35, which is not the 8-bit truncated sum of the four bytes before it. *)
C4_WheelPacket ==
    Len(Sent) > 2 =>
        /\ Packet(3) = <<22, 31, 198, 144, (22 + 31 + 0) % 256>>
        /\ Packet(3)[5] = 53
        /\ Packet(3)[5] # Checksum(Packet(3))

\* a wheel packet has been written whose last byte is 0x35, not the sum 0x8B
C4_Witness ==
    /\ Returned
    /\ Len(Sent) = 3
    /\ Packet(3)[5] = 53
    /\ Checksum(Packet(3)) = 139

\* the step of loop() that acts on a release edge of channel ch
AcceptedEdge(ch) ==
    /\ pc = "for"
    /\ i = ch
    /\ buttonState[ch] # lastButtonState[ch]
    /\ buttonState[ch] = HIGH
    /\ pc' = "delay"

\* the step of loop() that refreshes the LED and transmits
Refresh == pc = "for" /\ i = BTN_STATE_COUNT /\ dirty /\ pc' = "loop"

\* the only edge detected in this call of loop() is the one on ch to lvl
OnlyEdge(ch, lvl) == Edges = {<<ch, lvl>>}

\* the release edges detected in this call of loop() are those of channels S
Released(S) == {e[1] : e \in {f \in Edges : f[2] = HIGH}} = S

(* C5: an accepted UP edge takes level L to (L + 1) mod 256 and an         *)
(* accepted DOWN edge takes it to (L - 1) mod 256 for every L in 0..255,   *)
(* with no clamping; a DOWN edge at level 0 gives 255, and the PAS packet  *)
(* written in the same call of loop() carries sub-command 0x00.            *)
C5_Wraparound ==
    [][ /\ AcceptedEdge(BTN_UP) =>
              current_pas_level' = IF current_pas_level = 255 THEN 0
                                   ELSE current_pas_level + 1
        /\ AcceptedEdge(BTN_DOWN) =>
              current_pas_level' = IF current_pas_level = 0 THEN 255
                                   ELSE current_pas_level - 1
        /\ (Refresh /\ <<BTN_DOWN, HIGH>> \in Edges /\ current_pas_level = 255) =>
              /\ current_pas_level' = 255
              /\ Len(Sent') = 3
              /\ Sent'[1].arg[3] = 0
      ]_vars

\* a DOWN edge alone at level 0: the level is 255 and the PAS packet says 0x00
C5_Witness ==
    /\ Returned
    /\ level0 = 0
    /\ OnlyEdge(BTN_DOWN, HIGH)
    /\ current_pas_level = 255
    /\ Len(Sent) = 3
    /\ Packet(1)[3] = 0

(* C6 as stated: from level 1, one DOWN edge alone leaves the level at the *)
(* counter's maximum, 255.                                                 *)
C6_OneDecrementWraps ==
    (Returned /\ level0 = 1 /\ Released({BTN_DOWN})) => current_pas_level = 255

(* C6, amended: from level 1 one DOWN edge alone gives 0; from 0 one DOWN  *)
(* edge alone wraps to 255, with no clamping at 0; from 255 one UP edge    *)
(* alone wraps back to 0.                                                  *)
C6_TwoDecrementsWrap ==
    /\ (Returned /\ level0 = 1 /\ Released({BTN_DOWN})) => current_pas_level = 0
    /\ (Returned /\ level0 = 0 /\ Released({BTN_DOWN})) => current_pas_level = 255
    /\ (Returned /\ level0 = 255 /\ Released({BTN_UP})) => current_pas_level = 0

\* an UP edge alone at level 255: the level is back at 0
C6_Witness ==
    /\ Returned
    /\ level0 = 255
    /\ Released({BTN_UP})
    /\ current_pas_level = 0

\* setColor has been called in this call of loop()
LedWritten == \E k \in 1 .. Len(log) : log[k].op = "setColor"

(* C7: in a call of loop() whose only detected edge is a release edge on   *)
(* POWER, the level is unchanged, dirty is never set, the LED is not       *)
(* refreshed and no packet is written.                                     *)
C7_PowerEdgeOnly ==
    OnlyEdge(BTN_PWR, HIGH) =>
        /\ current_pas_level = level0
        /\ ~dirty
        /\ ~LedWritten
        /\ Sent = <<>>

(* C8 as stated: from level 1, a call of loop() whose only edge is an UP   *)
(* release writes the PAS packet [0x16, 0x08, 0x01, 0x1F], then the        *)
(* backlight packet [0x16, 0x1A, 0xF0, 0x35], then the wheel packet.       *)
C8_BootUpEdge ==
    (Returned /\ level0 = 1 /\ OnlyEdge(BTN_UP, HIGH)) =>
        /\ Len(Sent) = 3
        /\ Packet(1) = <<22, 8, 1, 31>>
        /\ Packet(2) = <<22, 26, 240, 53>>
        /\ Packet(3) = <<22, 31, 198, 144, 53>>

(* C8, amended: from level 1, a call of loop() whose only edge is an UP    *)
(* release writes the PAS packet of level 2, [0x16, 0x08, 0x0B, 0x29],     *)
(* then the backlight packet, which the code sends as [0x16, 0x1A, 0xF0,   *)
(* 0x00], then the wheel packet [0x16, 0x1F, 0xC6, 0x90, 0x35], and no     *)
(* other packet.                                                           *)
C8_UpEdgeBurst ==
    (Returned /\ level0 = 1 /\ OnlyEdge(BTN_UP, HIGH)) =>
        /\ Len(Sent) = 3
        /\ Packet(1) = <<22, 8, 11, 41>>
        /\ Packet(2) = <<22, 26, 240, 0>>
        /\ Packet(3) = <<22, 31, 198, 144, 53>>

\* the first call of loop() after boot, with UP alone released, has returned
C8_Witness ==
    /\ Returned
    /\ level0 = 1
    /\ last0 = [k \in Channels |-> LOW]
    /\ led = BLUE
    /\ OnlyEdge(BTN_UP, HIGH)
    /\ current_pas_level = 2
    /\ Len(Sent) = 3

(* C9: a LED refresh at level 0, 1, 2, 3 sets the LED to red, green, blue, *)
(* magenta; a refresh at level 4..255 writes nothing to the LED, which     *)
(* keeps the colour it had.                                                *)
C9_LedRefresh ==
    [][ Refresh =>
          /\ current_pas_level = 0 => led' = <<255, 0, 0>>
          /\ current_pas_level = 1 => led' = <<0, 255, 0>>
          /\ current_pas_level = 2 => led' = <<0, 0, 255>>
          /\ current_pas_level = 3 => led' = <<255, 0, 255>>
          /\ current_pas_level \in 0 .. 3 => CountIn(log', EvSetColor(led')) = 1
          /\ current_pas_level >= 4 => (led' = led /\ ~LedWritten')
      ]_vars

\* a refresh at level 5 has run: nothing written to the LED, still magenta
C9_Witness ==
    /\ Returned
    /\ current_pas_level = 5
    /\ Len(Sent) = 3
    /\ ~LedWritten
    /\ led = MAGENTA

\* how many channels were sampled at a level other than their previous one
ChangedChannels == Cardinality({k \in Channels : buttonState[k] # last0[k]})

(* C10: in one call of loop() a line transition gives exactly one edge     *)
(* event on its channel and exactly one 50 ms delay; toggles of that line  *)
(* that fall entirely inside that delay and leave it at the sampled level  *)
(* give no further edge event and no further level change, the lines being *)
(* sampled once, when loop() begins.                                       *)
C10_NoDoubleCount ==
    /\ \A k \in Channels : EdgeCount(k) <= 1
    /\ Count(EvDelay(50)) = Cardinality({k \in Channels : EdgeCount(k) = 1})
    /\ (Returned /\ loops > 0) =>
          /\ \A k \in Channels : EdgeCount(k) = 1 <=> buttonState[k] # last0[k]
          /\ ChangedChannels = 1 => Count(EvDelay(50)) = 1
    /\ pc # "loop" => \A k \in Channels : bounced[k] => buttonState[k] = last0[k]
    /\ \A k \in Channels : bounced[k] => EdgeCount(k) = 0
    /\ (Returned /\ \A k \in {BTN_UP, BTN_DOWN} : bounced[k] \/ buttonState[k] = last0[k])
          => current_pas_level = level0

\* UP was released (level 1 -> 2), bounced inside its delay, and the next call
\* of loop() found nothing to do
C10_Witness ==
    /\ Returned
    /\ loops >= 2
    /\ bounced[BTN_UP]
    /\ line[BTN_UP] = HIGH
    /\ Edges = {}
    /\ level0 = 2
    /\ current_pas_level = 2

\* the positions of the log holding an event of kind op
Positions(op) == {k \in 1 .. Len(log) : log[k].op = op}

\* every event of kind a in the log comes before every event of kind b
Before(a, b) == \A j \in Positions(a), k \in Positions(b) : j < k

(* C11: in any call of loop() either nothing is written to the serial link *)
(* or exactly three packets are, in the order PAS, backlight, wheel, each  *)
(* followed at once by a 1 ms wait, however many channels had edges; never *)
(* one or two packets, never another order.                                *)
C11_AllOrNothing ==
    /\ Len(Sent) \in {0, 3}
    /\ Len(Sent) = 3 =>
          /\ Len(Packet(1)) = 4 /\ Packet(1)[2] = 8
          /\ Len(Packet(2)) = 4 /\ Packet(2)[2] = 26
          /\ Len(Packet(3)) = 5 /\ Packet(3)[2] = 31
    /\ \A k \in Positions("write") : k < Len(log) /\ log[k + 1] = EvDelay(1)
    /\ Count(EvDelay(1)) = Len(Sent)

\* all three channels had an edge and one burst of three packets was written
C11_Witness ==
    /\ Returned
    /\ Cardinality(Edges) = 3
    /\ Len(Sent) = 3
    /\ Count(EvDelay(1)) = 3

(* C12: once dirty is set in a call of loop(), the same call, after the    *)
(* three channels and before the lines are sampled again, refreshes the    *)
(* LED, then writes the three packets, then clears dirty; dirty is false   *)
(* whenever loop() begins or has returned, and a changed level has always  *)
(* been transmitted by the time loop() returns.                            *)
C12_DirtyFlushed ==
    /\ Returned => ~dirty
    /\ dirty => (pc \in {"for", "delay"} /\ Sent = <<>> /\ ~LedWritten)
    /\ (Returned /\ \E e \in Edges : e[2] = HIGH) => Len(Sent) = 3
    /\ Len(Sent) > 0 => (Returned /\ \E e \in Edges : e[2] = HIGH)
    /\ LedWritten => (Len(Sent) = 3 /\ current_pas_level < 4)
    /\ (Len(Sent) = 3 /\ current_pas_level < 4) => LedWritten
    /\ Before("edge", "setColor")
    /\ Before("edge", "write")
    /\ Before("setColor", "write")
    /\ (Returned /\ current_pas_level # level0) =>
          (Len(Sent) = 3 /\ Packet(1)[3] = SubCommand(current_pas_level))

\* a call of loop() changed the level, refreshed the LED, transmitted and
\* returned with dirty clear
C12_Witness ==
    /\ Returned
    /\ ~dirty
    /\ current_pas_level # level0
    /\ LedWritten
    /\ Len(Sent) = 3

\* the step of loop() that finds channel ch pressed: sampled LOW after HIGH
PressEdge(ch) ==
    /\ pc = "for"
    /\ i = ch
    /\ buttonState[ch] # lastButtonState[ch]
    /\ buttonState[ch] = LOW
    /\ pc' = "delay"

(* C13: only a transition to the idle level (sampled HIGH after LOW) is    *)
(* acted on.  A transition away from idle (sampled LOW after HIGH), on any *)
(* channel, leaves the level and dirty as they are; a call of loop() with  *)
(* no transition to idle writes nothing to the LED or the serial link; the *)
(* level changes only in a call that detects an UP or DOWN release edge.   *)
C13_OnlyReleaseActs ==
    [][ /\ \A ch \in Channels : PressEdge(ch) =>
              /\ current_pas_level' = current_pas_level
              /\ dirty' = dirty
              /\ led' = led
              /\ Sent' = Sent
        /\ (pc' = "loop" /\ \A e \in Edges' : e[2] = LOW) =>
              /\ current_pas_level' = level0'
              /\ ~dirty'
              /\ ~LedWritten'
              /\ Sent' = <<>>
              /\ led' = led
        /\ current_pas_level' # level0' =>
              (<<BTN_UP, HIGH>> \in Edges' \/ <<BTN_DOWN, HIGH>> \in Edges')
        /\ current_pas_level' # current_pas_level =>
              (AcceptedEdge(BTN_UP) \/ AcceptedEdge(BTN_DOWN))
      ]_vars

\* at level 3 all three buttons were pressed in one call of loop(): three
\* edges, and nothing moved, nothing shown, nothing sent
C13_Witness ==
    /\ Returned
    /\ Edges = {<<BTN_UP, LOW>>, <<BTN_DOWN, LOW>>, <<BTN_PWR, LOW>>}
    /\ level0 = 3
    /\ current_pas_level = 3
    /\ ~LedWritten
    /\ Sent = <<>>

(* C14: when loop() returns, the remembered previous level of each channel *)
(* is the level sampled when that call began, changed or not; so a call    *)
(* detects a change on a channel exactly when its sample differs from the  *)
(* sample of the call before, and a button held down over several calls    *)
(* acts at most once.                                                      *)
C14_PreviousIsSample ==
    [][ /\ pc' = "loop" => lastButtonState' = buttonState'
        /\ (pc = "loop" /\ pc' = "for") => last0' = buttonState
        /\ pc' = "loop" =>
              \A k \in Channels : EdgeCount(k)' = 1 <=> buttonState'[k] # last0'[k]
        /\ pc' = "loop" =>
              \A k \in Channels : (buttonState'[k] = LOW /\ last0'[k] = LOW) =>
                                      EdgeCount(k)' = 0
      ]_vars

\* UP is held down over a call of loop() in which DOWN is released: no edge
\* on UP, one on DOWN, and both saved
C14_Witness ==
    /\ Returned
    /\ level0 = 3
    /\ current_pas_level = 2
    /\ buttonState[BTN_UP] = LOW
    /\ last0[BTN_UP] = LOW
    /\ EdgeCount(BTN_UP) = 0
    /\ EdgeCount(BTN_DOWN) = 1
    /\ lastButtonState = buttonState

\* how many channels before ch were sampled at a level other than their
\* previous one
ChangedBefore(ch) ==
    Cardinality({k \in Channels : k < ch /\ buttonState[k] # last0[k]})

(* C15: one call of loop() evaluates the channels in the order UP, DOWN,   *)
(* POWER; each channel whose sample differs from its previous level, in    *)
(* either direction, is followed at once by one delay(50), before the next *)
(* channel is evaluated; the delays of a call number as many as its        *)
(* changed channels (0..3), and all come before the transmission.          *)
C15_SerialDelays ==
    /\ \A j \in Positions("edge"), k \in Positions("edge") :
          j < k => log[j].arg[1] < log[k].arg[1]
    /\ \A k \in Positions("edge") : k < Len(log) /\ log[k + 1] = EvDelay(50)
    /\ Count(EvDelay(50)) = Cardinality(Positions("edge"))
    /\ pc = "for" =>
          /\ \A k \in Positions("edge") : log[k].arg[1] < i
          /\ Count(EvDelay(50)) = ChangedBefore(i)
    /\ pc = "delay" =>
          /\ log[Len(log)] = EvDelay(50)
          /\ log[Len(log) - 1] = EvEdge(i, buttonState[i])
          /\ Count(EvDelay(50)) = ChangedBefore(i) + 1
    /\ Returned =>
          /\ Count(EvDelay(50)) = ChangedChannels
          /\ Count(EvDelay(50)) \in 0 .. 3
    /\ \A j \in 1 .. Len(log), k \in Positions("write") :
          log[j] = EvDelay(50) => j < k

\* UP pressed, DOWN and POWER released in one call: three delays, then the burst
C15_Witness ==
    /\ Returned
    /\ Edges = {<<BTN_UP, LOW>>, <<BTN_DOWN, HIGH>>, <<BTN_PWR, HIGH>>}
    /\ Count(EvDelay(50)) = 3
    /\ Len(Sent) = 3

(* C16: the previous levels start LOW and idle lines read HIGH, so the     *)
(* first call of loop() after boot, with no button pressed, finds a        *)
(* release edge on all three channels: the level goes 1 -> 2 -> 1, dirty   *)
(* is set, three delay(50) run and one burst with PAS sub-command 0x01 is  *)
(* written; a button held down at boot gives no edge in that first call.   *)
C16_BootBurst ==
    /\ loops = 0 =>
          /\ lastButtonState = [k \in Channels |-> LOW]
          /\ current_pas_level = 1
          /\ lastPas = <<>>
    /\ (loops = 1 /\ buttonState = [k \in Channels |-> HIGH]) =>
          /\ (pc = "delay" /\ i = BTN_UP) => (current_pas_level = 2 /\ dirty)
          /\ (pc = "delay" /\ i = BTN_DOWN) => (current_pas_level = 1 /\ dirty)
          /\ (pc = "delay" /\ i = BTN_PWR) => (current_pas_level = 1 /\ dirty)
          /\ Returned =>
                /\ Edges = {<<BTN_UP, HIGH>>, <<BTN_DOWN, HIGH>>, <<BTN_PWR, HIGH>>}
                /\ current_pas_level = 1
                /\ Count(EvDelay(50)) = 3
                /\ Len(Sent) = 3
                /\ Packet(1) = <<22, 8, 1, 31>>
    /\ loops = 1 =>
          /\ \A k \in Channels : buttonState[k] = LOW => EdgeCount(k) = 0
          /\ Returned => \A k \in Channels : buttonState[k] = HIGH => EdgeCount(k) = 1

\* the first call of loop() has returned, no line has moved since boot, and
\* a burst for level 1 is on the wire
C16_Witness ==
    /\ Returned
    /\ loops = 1
    /\ line = [k \in Channels |-> HIGH]
    /\ bounce = [k \in Channels |-> "none"]
    /\ current_pas_level = 1
    /\ Len(Sent) = 3
    /\ Packet(1)[3] = 1

(* C17: when loop() has returned, either no packet was ever written and    *)
(* the level is still 1, or the sub-command of the PAS packet written last *)
(* is the mapped value of the current level.                               *)
C17_WireMatchesLevel ==
    /\ Len(Sent) > 0 => lastPas = Packet(1)
    /\ Returned =>
          \/ lastPas = <<>> /\ current_pas_level = 1
          \/ lastPas # <<>> /\ lastPas[3] = SubCommand(current_pas_level)

\* a call of loop() that only saw a press has returned: nothing sent, and the
\* packet sent before still says level 3
C17_Witness ==
    /\ Returned
    /\ Edges = {<<BTN_UP, LOW>>}
    /\ Sent = <<>>
    /\ current_pas_level = 3
    /\ lastPas = <<22, 8, 12, 42>>

\* the colour table of the specification
ColourOf(level) ==
    IF level = 0 THEN <<255, 0, 0>>
    ELSE IF level = 1 THEN <<0, 255, 0>>
    ELSE IF level = 2 THEN <<0, 0, 255>>
    ELSE <<255, 0, 255>>

(* C18: when loop() has returned and some LED refresh has written a        *)
(* colour, the LED shows the colour of the level if the level is in 0..3;  *)
(* at level 4 or more it shows the colour of the last level below 4 that   *)
(* was current at a refresh: magenta when 4 was reached from 3, red when   *)
(* 255 was reached from 0.                                                 *)
C18_LedMatchesLevel ==
    /\ shown \in -1 .. 3
    /\ (Returned /\ shown = -1) => (led = <<0, 0, 0>> /\ current_pas_level = 1)
    /\ (Returned /\ shown # -1) =>
          /\ current_pas_level \in 0 .. 3 =>
                (shown = current_pas_level /\ led = ColourOf(current_pas_level))
          /\ current_pas_level >= 4 =>
                (shown \in {0, 3} /\ led = ColourOf(shown))
          /\ (current_pas_level = 4 /\ level0 = 3) => led = <<255, 0, 255>>
          /\ (current_pas_level = 255 /\ level0 = 0) => led = <<255, 0, 0>>

\* level 4 was reached from 3 and transmitted as 0x0D; the LED is still magenta
C18_Witness ==
    /\ Returned
    /\ level0 = 3
    /\ current_pas_level = 4
    /\ lastPas[3] = 13
    /\ shown = 3
    /\ led = MAGENTA

=============================================================================
